---- MODULE Spec2Model ----
(***************************************************************************)
(* pygraph: the named-artist registry of a Figure (_Figure.add_artist,     *)
(* remove_artist, set_visible), the matplotlib handles it keeps in         *)
(* parallel, and the Legend derived from it.  One Figure is modelled; its  *)
(* projection (Figure or Figure3D) is chosen when the Window is built.     *)
(* Python dicts are modelled as sequences of <<key, value>> pairs in       *)
(* insertion order.  Every public method is one atomic step; an exception  *)
(* ends the step with whatever the method had already mutated.  The        *)
(* variable `last` records the call a step made (arguments, outcome, the   *)
(* matplotlib calls in order), so that a property can speak of a call.     *)
(* Asserts are enabled (the interpreter runs without -O).                  *)
(***************************************************************************)
EXTENDS Integers, Sequences, FiniteSets, TLC

\* ---------------------------------------------------------------- bounds
MaxHandles == 3    \* matplotlib artists the axes may create in one run
MaxSel == 2        \* longest explicit `names` list passed to the Legend
MaxLen == 2        \* longest coordinate / color / size sequence passed

\* ------------------------------------------------------ the caller's data
\* The name strings in use.
Names == {"f", "g"}

\* The Artist objects the caller has constructed, by concrete class and by
\* the name given to the constructor: a Text "f" (drawn by Figure only), a
\* Points3D "f" and a Line3D "g" (both drawn by Figure and by Figure3D).
ArtKinds == <<"Text", "Points3D", "Line3D">>
ArtNames == <<"f", "f", "g">>
Artists == DOMAIN ArtKinds
KindOf(a) == ArtKinds[a]

NoArt == Len(ArtKinds) + 1
NoName == "-"
Labels == {"", "lbl"}

\* isinstance(artist, Text): Text and its subclass Text3D
IsText(k) == k \in {"Text", "Text3D"}

\* ------------------------------------------------------------ Python dict
DictKeys(d) == {d[i][1] : i \in DOMAIN d}
DictHas(d, k) == \E i \in DOMAIN d : d[i][1] = k
DictIdx(d, k) == CHOOSE i \in DOMAIN d : d[i][1] = k
DictGet(d, k) == d[DictIdx(d, k)][2]
DictSet(d, k, v) ==
    IF DictHas(d, k) THEN [d EXCEPT ![DictIdx(d, k)] = <<k, v>>]
    ELSE Append(d, <<k, v>>)
DictPop(d, k) == SelectSeq(d, LAMBDA e : e[1] # k)

\* The ColorMesh objects the program constructs, each with the points of its
\* X/Y grids (flattened) and its colormap.  ColorMesh.__init__ requires 2-D
\* grids of one shape, so a mesh has as many x as y values.
MeshPts == << <<<<2, 2>>, <<4, 6>>>>, <<<<-7, 0>>, <<12, 9>>>> >>
MeshCmap == <<"plasma", "viridis">>
Meshes == DOMAIN MeshPts
NoMesh == Len(MeshPts) + 1
NoHandle == 0

\* Coordinates.  Artist.__init__ flattens x and y and requires equal sizes, so
\* an Artist's data is a sequence of points, possibly empty; a Text is given
\* one position.
NoPts == <<>>
PtsA == <<<<0, 5>>, <<10, -1>>>>
PtsB == <<<<-5, 3>>, <<3, 8>>>>
TextPts == <<<<1, 7>>>>
CoordOptions(a) == IF IsText(KindOf(a)) THEN {TextPts} ELSE {NoPts, PtsA, PtsB}
DefaultCoords == [a \in Artists |-> IF IsText(KindOf(a)) THEN TextPts ELSE PtsA]

\* Figure.AUTOSCALE_OPTIONS, and the limits of freshly created axes
AUTOSCALE_OPTIONS == {"all", "width", "height", "none"}
DefaultLims == [x |-> <<0, 1>>, y |-> <<0, 1>>]

\* Artist objects.  A value passed as color or size is a string, one number,
\* or a sequence of numbers of which only the length matters; a linewidth is
\* a number.
Str(v) == [t |-> "str", s |-> v, n |-> 0]
Num == [t |-> "num", s |-> "", n |-> 0]
NumSeq(k) == [t |-> "seq", s |-> "", n |-> k]
NoVal == [t |-> "-", s |-> "", n |-> 0]
Lens == 0..MaxLen
NoLen == MaxLen + 1
Unset == "-"

\* Class variables: Artist.COLOR_OPTIONS (two of its many names are used),
\* Line.LS_OPTIONS as Python reads the literal ('--' ':' with no comma between
\* them is the one string '--:'), Arrows.PIVOT_OPTIONS, the keys of
\* Text.COORD_OPTIONS.
COLOR_OPTIONS == {"k", "red"}
LS_OPTIONS == {"solid", "dashed", "dotted", "dashdot", "-", "--:", "-."}
PIVOT_OPTIONS == {"tip", "mid", "tail"}
COORD_OPTIONS == {"data", "fraction"}

ObjKinds == {"Line", "Straight", "Points", "Arrows", "Text",
             "Line3D", "Points3D", "Text3D"}
Is3D(k) == k \in {"Line3D", "Points3D", "Text3D"}
IsLine(k) == k \in {"Line", "Straight", "Line3D"}
IsPoints(k) == k \in {"Points", "Points3D"}

\* An Artist: its class, the size of _xdata, and the attributes its class
\* has; Unset / NoVal is an attribute that was never assigned.
NoObj == [kind |-> Unset, n |-> 0, c |-> NoVal, lw |-> 0, ls |-> Unset,
          s |-> NoVal, pivot |-> Unset, coord_type |-> Unset]

\* The arguments of a call: the lengths of x, y, z, u, v (NoLen when the
\* parameter is not passed) and the style values.
Args(kind, x, y, z, u, v, c, lw, ls, s, pivot, coord_type) ==
    [kind |-> kind, x |-> x, y |-> y, z |-> z, u |-> u, v |-> v, c |-> c,
     lw |-> lw, ls |-> ls, s |-> s, pivot |-> pivot, coord_type |-> coord_type]
NoArgs == Args(Unset, NoLen, NoLen, NoLen, NoLen, NoLen, NoVal, 0, Unset,
               NoVal, Unset, Unset)

\* ------------------------------------------------------------------ state
VARIABLES
    proj,            \* Window figure_projection: "2d" (Figure) / "3d" (Figure3D)
    artName,         \* Artist.get_name() of every constructed Artist
    artists,         \* _Figure._artists      : name -> Artist
    mpl_artists,     \* _Figure._mpl_artists  : name -> matplotlib artist
    live,            \* matplotlib artists currently on the axes
    hidden,          \* artists on the axes whose visible flag is False
    nextHandle,      \* identity of the next matplotlib artist created
    legend_artists,  \* Legend._artists       : name -> Artist
    mpl_legend,      \* Legend._mpl_legend    : handles it was built from, flag
    color_mesh,      \* _Figure._color_mesh   : the ColorMesh, or NoMesh (None)
    mpl_quad_mesh,   \* Figure._mpl_quad_mesh / Figure3D._mpl_surf, or NoHandle
    autoscale,       \* Figure._autoscale
    lims,            \* xlim and ylim of the matplotlib axes
    coords,          \* xdata/ydata of every constructed Artist, as points
    obj,             \* the Artist the last constructor call returned, or NoObj
    args,            \* the arguments of the last constructor or setter call
    last             \* the call just made: arguments, outcome, Renderer calls

vars == <<proj, artName, artists, mpl_artists, live, hidden, nextHandle,
          legend_artists, mpl_legend, color_mesh, mpl_quad_mesh, autoscale,
          lims, coords, obj, args, last>>

\* Outcomes.  The source raises AssertionError carrying an errors.IndexError
\* message; the outcome names tell the three messages apart.
OK == "ok"
DuplicateNameError == "DuplicateNameError"      \* IndexError(overwrite=True)
NotFoundError == "NotFoundError"                \* IndexError, "wasn't found"
InvalidSelectionError == "InvalidSelectionError"
SlotOccupiedError == "SlotOccupiedError"        \* IndexError(overwrite=True)
NotImplementedErr == "NotImplementedError"
AttributeErr == "AttributeError"
KeyErr == "KeyError"
AssertionErr == "AssertionError"                \* `names` is a str, not 'all'
ValueErr == "ValueError"
TypeErr == "TypeError"
RendererError == "RendererError"                \* raised inside matplotlib

\* One call into matplotlib: which, on/for which handle, its argument (the
\* label of a draw call, the flag of set_visible), and whether it returned.
Call(c, h, arg, ok) == [call |-> c, h |-> h, arg |-> arg, ok |-> ok]

Last(op, a, name, overwrite, sel, outcome, calls) ==
    [op |-> op, art |-> a, name |-> name, overwrite |-> overwrite,
     sel |-> sel, outcome |-> outcome, calls |-> calls]

SelAll == [kind |-> "all", names |-> <<>>]
SelStr == [kind |-> "str", names |-> <<>>]
SelList(ns) == [kind |-> "list", names |-> ns]
NoSel == [kind |-> "-", names |-> <<>>]

\* The part of the Figure and its axes a registry method reads and writes.
FigState == [artists |-> artists, mpl_artists |-> mpl_artists,
             live |-> live, hidden |-> hidden, nextHandle |-> nextHandle]

Result(st, exc, calls) == [st |-> st, exc |-> exc, calls |-> calls]

Init ==
    /\ proj \in {"2d", "3d"}
    /\ artName = ArtNames
    /\ artists = <<>>
    /\ mpl_artists = <<>>
    /\ live = {}
    /\ hidden = {}
    /\ nextHandle = 1
    /\ legend_artists = <<>>
    /\ mpl_legend = [handles |-> <<>>, visible |-> FALSE]
    /\ color_mesh = NoMesh
    /\ mpl_quad_mesh = NoHandle
    /\ autoscale = "none"
    /\ lims = DefaultLims
    /\ coords = DefaultCoords
    /\ obj = NoObj
    /\ args = NoArgs
    /\ last = Last("init", NoArt, NoName, FALSE, NoSel, OK, <<>>)

\* ------------------------------------------------- Figure / Figure3D draw
\* Figure._add_mpl_artist / Figure3D._add_mpl_artist: what the isinstance
\* chain and the chosen _add_mpl_* routine do before they reach matplotlib.
\*   Figure:   Straight, Line (Line3D), Points (Points3D), Arrows draw;
\*             Text draws; Text3D has no _coord_type (Text3D.__init__ never
\*             calls set_coord_type) so get_coord_type raises AttributeError;
\*             anything else raises NotImplementedError.
\*   Figure3D: Line3D, Points3D, Text3D draw; a 2D Points passes the
\*             isinstance(artist, Points) test and fails in get_zdata;
\*             anything else raises NotImplementedError.
DrawOutcome(p, k) ==
    IF p = "2d"
    THEN CASE k \in {"Straight", "Line", "Line3D", "Points", "Points3D",
                     "Arrows", "Text"} -> OK
           [] k = "Text3D" -> AttributeErr
           [] OTHER -> NotImplementedErr
    ELSE CASE k \in {"Line3D", "Points3D", "Text3D"} -> OK
           [] k = "Points" -> AttributeErr
           [] OTHER -> NotImplementedErr

\* One of Figure._add_mpl_axline/_line/_scatter/_quiver/_annotation: the axes
\* call creates the matplotlib artist (or raises), then the handle is stored
\* under artist.get_name().
add_mpl_artist(st, p, a, name, label, fail) ==
    LET out == DrawOutcome(p, KindOf(a)) IN
    IF out # OK THEN Result(st, out, <<>>)
    ELSE IF fail = "materialize"
    THEN Result(st, RendererError, <<Call("materialize", 0, label, FALSE)>>)
    ELSE LET h == st.nextHandle IN
         Result([st EXCEPT !.mpl_artists = DictSet(@, name, h),
                           !.live = @ \cup {h},
                           !.nextHandle = h + 1],
                OK, <<Call("materialize", h, label, TRUE)>>)

\* remove_artist, had it called mpl_artist.remove() on the looked-up handle
\* before popping it from _mpl_artists.
remove_artist_destroy_first(st, name, fail) ==
    IF ~DictHas(st.artists, name) THEN Result(st, NotFoundError, <<>>)
    ELSE LET s1 == [st EXCEPT !.artists = DictPop(@, name)] IN
         IF ~DictHas(s1.mpl_artists, name) THEN Result(s1, KeyErr, <<>>)
         ELSE LET h == DictGet(s1.mpl_artists, name) IN
              IF fail = "destroy" \/ h \notin s1.live
              THEN Result(s1, RendererError, <<Call("destroy", h, "", FALSE)>>)
              ELSE Result([s1 EXCEPT !.mpl_artists = DictPop(@, name),
                                     !.live = @ \ {h},
                                     !.hidden = @ \ {h}], OK,
                          <<Call("destroy", h, "", TRUE)>>)

\* remove_artist, had it forgotten to call mpl_artist.remove().
remove_artist_leak(st, name, fail) ==
    IF ~DictHas(st.artists, name) THEN Result(st, NotFoundError, <<>>)
    ELSE Result([st EXCEPT !.artists = DictPop(@, name),
                           !.mpl_artists = DictPop(@, name)], OK, <<>>)

\* remove_artist, had it used dict.popitem() (the newest entry) for the
\* Artist instead of pop(name).
remove_artist_popitem(st, name, fail) ==
    IF ~DictHas(st.artists, name) THEN Result(st, NotFoundError, <<>>)
    ELSE LET s1 == [st EXCEPT !.artists = SubSeq(@, 1, Len(@) - 1)]
             h == DictGet(s1.mpl_artists, name)
             s2 == [s1 EXCEPT !.mpl_artists = DictPop(@, name)]
         IN  IF fail = "destroy" \/ h \notin s2.live
             THEN Result(s2, RendererError, <<Call("destroy", h, "", FALSE)>>)
             ELSE Result([s2 EXCEPT !.live = @ \ {h}, !.hidden = @ \ {h}],
                         OK, <<Call("destroy", h, "", TRUE)>>)

\* _Figure.remove_artist
remove_artist(st, name, fail) ==
    IF ~DictHas(st.artists, name) THEN Result(st, NotFoundError, <<>>)
    ELSE LET s1 == [st EXCEPT !.artists = DictPop(@, name)] IN
         IF ~DictHas(s1.mpl_artists, name) THEN Result(s1, KeyErr, <<>>)
         ELSE LET h == DictGet(s1.mpl_artists, name)
                  s2 == [s1 EXCEPT !.mpl_artists = DictPop(@, name)]
              IN  IF fail = "destroy" \/ h \notin s2.live
                  THEN Result(s2, RendererError,
                              <<Call("destroy", h, "", FALSE)>>)
                  ELSE Result([s2 EXCEPT !.live = @ \ {h},
                                         !.hidden = @ \ {h}], OK,
                              <<Call("destroy", h, "", TRUE)>>)

\* add_artist, had it taken the overwrite branch whatever the flag.
add_artist_ignore_flag(st, p, a, name, label, overwrite, fail) ==
    LET r1 == IF DictHas(st.artists, name)
              THEN remove_artist(st, name, fail)
              ELSE Result(st, OK, <<>>)
    IN  IF r1.exc # OK THEN r1
        ELSE LET lbl == IF label = "" THEN name ELSE label
                 r2 == add_mpl_artist(r1.st, p, a, name, lbl, fail)
                 calls == r1.calls \o r2.calls
             IN  IF r2.exc # OK THEN Result(r2.st, r2.exc, calls)
                 ELSE Result([r2.st EXCEPT !.artists = DictSet(@, name, a)],
                             OK, calls)

\* add_artist, had the overwrite branch not removed the existing entry and
\* only drawn and stored the new one over it.
add_artist_no_remove(st, p, a, name, label, overwrite, fail) ==
    LET r1 == IF DictHas(st.artists, name) /\ ~overwrite
              THEN Result(st, DuplicateNameError, <<>>)
              ELSE Result(st, OK, <<>>)
    IN  IF r1.exc # OK THEN r1
        ELSE LET lbl == IF label = "" THEN name ELSE label
                 r2 == add_mpl_artist(r1.st, p, a, name, lbl, fail)
             IN  IF r2.exc # OK THEN r2
                 ELSE Result([r2.st EXCEPT !.artists = DictSet(@, name, a)],
                             OK, r2.calls)

\* add_artist, had the overwrite branch replaced the entry where it stands
\* instead of popping it and storing the new one at the end.
add_artist_in_place(st, p, a, name, label, overwrite, fail) ==
    LET r1 == IF DictHas(st.artists, name)
              THEN IF overwrite THEN remove_artist(st, name, fail)
                   ELSE Result(st, DuplicateNameError, <<>>)
              ELSE Result(st, OK, <<>>)
    IN  IF r1.exc # OK THEN r1
        ELSE LET lbl == IF label = "" THEN name ELSE label
                 r2 == add_mpl_artist(r1.st, p, a, name, lbl, fail)
                 calls == r1.calls \o r2.calls
             IN  IF r2.exc # OK THEN Result(r2.st, r2.exc, calls)
                 ELSE Result([r2.st EXCEPT
                                !.artists = DictSet(st.artists, name, a),
                                !.mpl_artists =
                                    DictSet(st.mpl_artists, name,
                                            DictGet(r2.st.mpl_artists, name))],
                             OK, calls)

\* _Figure.add_artist
add_artist(st, p, a, name, label, overwrite, fail) ==
    LET r1 == IF DictHas(st.artists, name)
              THEN IF overwrite THEN remove_artist(st, name, fail)
                   ELSE Result(st, DuplicateNameError, <<>>)
              ELSE Result(st, OK, <<>>)
    IN  IF r1.exc # OK THEN r1
        ELSE LET lbl == IF label = "" THEN name ELSE label
                 r2 == add_mpl_artist(r1.st, p, a, name, lbl, fail)
                 calls == r1.calls \o r2.calls
             IN  IF r2.exc # OK THEN Result(r2.st, r2.exc, calls)
                 ELSE Result([r2.st EXCEPT !.artists = DictSet(@, name, a)],
                             OK, calls)

Commit(r) ==
    /\ artists' = r.st.artists
    /\ mpl_artists' = r.st.mpl_artists
    /\ live' = r.st.live
    /\ hidden' = r.st.hidden
    /\ nextHandle' = r.st.nextHandle

\* Which matplotlib call of a method raises, if any.  A failure can only be
\* injected into a call the method makes: it is then the last call logged.
Failures == {"none", "destroy", "materialize"}
Injected(fail, r) ==
    fail = "none" \/ (r.calls # <<>> /\ ~r.calls[Len(r.calls)].ok
                                     /\ r.calls[Len(r.calls)].call = fail)

\* A call of Figure.add_artist(artist, label, overwrite)
AddArtist(a, label, overwrite, fail) ==
    /\ LET r == add_artist(FigState, proj, a, artName[a], label, overwrite,
                           fail)
       IN  /\ r.st.nextHandle <= MaxHandles + 1   \* at most MaxHandles drawn
           /\ Injected(fail, r)
           /\ Commit(r)
           /\ last' = Last("add", a, artName[a], overwrite, NoSel,
                           r.exc, r.calls)
    /\ UNCHANGED <<proj, artName, legend_artists, mpl_legend, color_mesh,
                   mpl_quad_mesh, autoscale, lims, coords, obj, args>>

\* A call of artist.set_name(name) by the caller, on an Artist that may be
\* registered: only the Artist's own _name is assigned.
SetName(a, name) ==
    /\ artName' = [artName EXCEPT ![a] = name]
    /\ last' = Last("set_name", a, name, FALSE, NoSel, OK, <<>>)
    /\ UNCHANGED <<proj, artists, mpl_artists, live, hidden, nextHandle,
                   legend_artists, mpl_legend, color_mesh, mpl_quad_mesh,
                   autoscale, lims, coords, obj, args>>

\* A call of remove_artist, had it also dropped the name from Legend._artists.
RemoveArtist_and_legend(name, fail) ==
    /\ LET r == remove_artist(FigState, name, fail)
       IN  /\ Injected(fail, r)
           /\ Commit(r)
           /\ last' = Last("remove", NoArt, name, FALSE, NoSel,
                           r.exc, r.calls)
    /\ legend_artists' = DictPop(legend_artists, name)
    /\ UNCHANGED <<proj, artName, mpl_legend, color_mesh,
                   mpl_quad_mesh, autoscale, lims, coords, obj, args>>

\* A call of Figure.remove_artist(name)
RemoveArtist(name, fail) ==
    /\ LET r == remove_artist(FigState, name, fail)
       IN  /\ Injected(fail, r)
           /\ Commit(r)
           /\ last' = Last("remove", NoArt, name, FALSE, NoSel,
                           r.exc, r.calls)
    /\ UNCHANGED <<proj, artName, legend_artists, mpl_legend, color_mesh,
                   mpl_quad_mesh, autoscale, lims, coords, obj, args>>

\* set_visible, had it set the flag of every stored matplotlib artist.
set_visible_every(st, name, visibility) ==
    IF ~DictHas(st.artists, name) THEN Result(st, NotFoundError, <<>>)
    ELSE IF ~DictHas(st.mpl_artists, name) THEN Result(st, KeyErr, <<>>)
    ELSE LET h == DictGet(st.mpl_artists, name)
             all == {st.mpl_artists[i][2] : i \in DOMAIN st.mpl_artists}
         IN  Result([st EXCEPT !.hidden = IF visibility THEN @ \ all
                                          ELSE @ \cup all],
                    OK, <<Call("set_visible", h,
                               IF visibility THEN "True" ELSE "False", TRUE)>>)

\* _Figure.set_visible
set_visible(st, name, visibility) ==
    IF ~DictHas(st.artists, name) THEN Result(st, NotFoundError, <<>>)
    ELSE IF ~DictHas(st.mpl_artists, name) THEN Result(st, KeyErr, <<>>)
    ELSE LET h == DictGet(st.mpl_artists, name) IN
         Result([st EXCEPT !.hidden = IF visibility THEN @ \ {h}
                                      ELSE @ \cup {h}],
                OK, <<Call("set_visible", h,
                           IF visibility THEN "True" ELSE "False", TRUE)>>)

SetVisible(name, visibility) ==
    /\ LET r == set_visible(FigState, name, visibility)
       IN  /\ Commit(r)
           /\ last' = Last("set_visible", NoArt, name, FALSE, NoSel,
                           r.exc, r.calls)
    /\ UNCHANGED <<proj, artName, legend_artists, mpl_legend, color_mesh,
                   mpl_quad_mesh, autoscale, lims, coords, obj, args>>

\* ----------------------------------------------------------------- Legend
LegState == [artists |-> legend_artists, mpl_legend |-> mpl_legend]

\* Legend._update, had it left the panel as it was when no handle is found
\* instead of hiding it.
legend_update_never_hides(lg, figMpl) ==
    IF \E n \in DictKeys(lg.artists) : ~DictHas(figMpl, n)
    THEN Result(lg, KeyErr, <<>>)
    ELSE LET hs == [i \in DOMAIN lg.artists |->
                        DictGet(figMpl, lg.artists[i][1])]
         IN  IF Len(hs) > 0
             THEN Result([lg EXCEPT !.mpl_legend =
                               [handles |-> hs, visible |-> TRUE]],
                         OK, <<Call("legend", 0, "", TRUE),
                               Call("legend_visible", 0, "True", TRUE)>>)
             ELSE Result(lg, OK, <<>>)

\* Legend._update: look every Legend name up in Figure._mpl_artists (KeyError
\* when one is missing), then rebuild and show the panel, or hide it.
legend_update(lg, figMpl) ==
    IF \E n \in DictKeys(lg.artists) : ~DictHas(figMpl, n)
    THEN Result(lg, KeyErr, <<>>)
    ELSE LET hs == [i \in DOMAIN lg.artists |->
                        DictGet(figMpl, lg.artists[i][1])]
         IN  IF Len(hs) > 0
             THEN Result([lg EXCEPT !.mpl_legend =
                               [handles |-> hs, visible |-> TRUE]],
                         OK, <<Call("legend", 0, "", TRUE),
                               Call("legend_visible", 0, "True", TRUE)>>)
             ELSE Result([lg EXCEPT !.mpl_legend.visible = FALSE],
                         OK, <<Call("legend_visible", 0, "False", TRUE)>>)

\* name in figure.get_artists() and not isinstance(..., Text)
ValidSelection(figArtists, n) ==
    DictHas(figArtists, n) /\ ~IsText(KindOf(DictGet(figArtists, n)))

\* The merge, had a name already in the Legend been popped and stored again
\* at the end.
RECURSIVE legend_merge_reinsert(_, _, _)
legend_merge_reinsert(leg, figArtists, names) ==
    IF names = <<>> THEN leg
    ELSE legend_merge_reinsert(
             Append(DictPop(leg, Head(names)),
                    <<Head(names), DictGet(figArtists, Head(names))>>),
             figArtists, Tail(names))

\* self._artists |= {name: figure.get_artists()[name] for name in names}
RECURSIVE legend_merge(_, _, _)
legend_merge(leg, figArtists, names) ==
    IF names = <<>> THEN leg
    ELSE legend_merge(DictSet(leg, Head(names),
                              DictGet(figArtists, Head(names))),
                      figArtists, Tail(names))

\* The 'all' selection, had it taken every registered Artist, Text included.
legend_all_with_text(figArtists) == figArtists

\* {name: artist for name, artist in items() if not isinstance(artist, Text)}
legend_all(figArtists) ==
    SelectSeq(figArtists, LAMBDA e : ~IsText(KindOf(e[2])))

\* Legend.add, had it asserted and merged name by name as Legend.remove's
\* loop does.
RECURSIVE legend_merge_each(_, _, _)
legend_merge_each(lg, figArtists, names) ==
    IF names = <<>> THEN Result(lg, OK, <<>>)
    ELSE IF ~ValidSelection(figArtists, Head(names))
    THEN Result(lg, InvalidSelectionError, <<>>)
    ELSE legend_merge_each(
             [lg EXCEPT !.artists = DictSet(@, Head(names),
                                            DictGet(figArtists, Head(names)))],
             figArtists, Tail(names))

legend_add_partial(lg, figArtists, figMpl, sel) ==
    IF sel.kind = "str" THEN Result(lg, AssertionErr, <<>>)
    ELSE IF sel.kind = "all"
    THEN legend_update([lg EXCEPT !.artists = legend_all(figArtists)], figMpl)
    ELSE LET r == legend_merge_each(lg, figArtists, sel.names) IN
         IF r.exc # OK THEN r ELSE legend_update(r.st, figMpl)

\* Legend.add
legend_add(lg, figArtists, figMpl, sel) ==
    IF sel.kind = "str" THEN Result(lg, AssertionErr, <<>>)
    ELSE IF sel.kind = "all"
    THEN legend_update([lg EXCEPT !.artists = legend_all(figArtists)], figMpl)
    ELSE IF \E i \in DOMAIN sel.names :
                ~ValidSelection(figArtists, sel.names[i])
    THEN Result(lg, InvalidSelectionError, <<>>)
    ELSE legend_update(
             [lg EXCEPT !.artists = legend_merge(@, figArtists, sel.names)],
             figMpl)

\* The for loop of Legend.remove: assert, then pop, name by name.
RECURSIVE legend_pop_each(_, _, _)
legend_pop_each(lg, figArtists, names) ==
    IF names = <<>> THEN Result(lg, OK, <<>>)
    ELSE IF ~ValidSelection(figArtists, Head(names))
    THEN Result(lg, InvalidSelectionError, <<>>)
    ELSE IF ~DictHas(lg.artists, Head(names))
    THEN Result(lg, KeyErr, <<>>)
    ELSE legend_pop_each([lg EXCEPT !.artists = DictPop(@, Head(names))],
                         figArtists, Tail(names))

\* Legend.remove
legend_remove(lg, figArtists, figMpl, sel) ==
    IF sel.kind = "str" THEN Result(lg, AssertionErr, <<>>)
    ELSE IF sel.kind = "all"
    THEN legend_update([lg EXCEPT !.artists = <<>>], figMpl)
    ELSE LET r == legend_pop_each(lg, figArtists, sel.names) IN
         IF r.exc # OK THEN r ELSE legend_update(r.st, figMpl)

\* The `names` arguments tried: 'all', another string, and every list of at
\* most MaxSel names.
SeqsUpTo(S, n) == UNION {[1..k -> S] : k \in 0..n}
Selectors == {SelAll, SelStr} \cup {SelList(ns) : ns \in SeqsUpTo(Names, MaxSel)}

LegendAdd(sel) ==
    /\ LET r == legend_add(LegState, artists, mpl_artists, sel)
       IN  /\ legend_artists' = r.st.artists
           /\ mpl_legend' = r.st.mpl_legend
           /\ last' = Last("legend_add", NoArt, NoName, FALSE, sel,
                           r.exc, r.calls)
    /\ UNCHANGED <<proj, artName, artists, mpl_artists, live, hidden,
                   nextHandle, color_mesh, mpl_quad_mesh, autoscale,
                   lims, coords, obj, args>>

LegendRemove(sel) ==
    /\ LET r == legend_remove(LegState, artists, mpl_artists, sel)
       IN  /\ legend_artists' = r.st.artists
           /\ mpl_legend' = r.st.mpl_legend
           /\ last' = Last("legend_remove", NoArt, NoName, FALSE, sel,
                           r.exc, r.calls)
    /\ UNCHANGED <<proj, artName, artists, mpl_artists, live, hidden,
                   nextHandle, color_mesh, mpl_quad_mesh, autoscale,
                   lims, coords, obj, args>>

\* ------------------------------------------------------------ ColorMesh
\* The part of the Figure the ColorMesh methods read and write.
MeshState == [color_mesh |-> color_mesh, mpl_quad_mesh |-> mpl_quad_mesh,
              live |-> live, nextHandle |-> nextHandle]

\* remove_color_mesh, had it cleared both fields without removing the
\* matplotlib object from the axes.
remove_color_mesh_leak(ms, fail) ==
    IF ms.color_mesh = NoMesh THEN Result(ms, NotFoundError, <<>>)
    ELSE Result([ms EXCEPT !.color_mesh = NoMesh, !.mpl_quad_mesh = NoHandle],
                OK, <<>>)

\* Figure.remove_color_mesh / Figure3D.remove_color_mesh: the slot is cleared
\* first, then the matplotlib object is removed, then its field is cleared.
remove_color_mesh(ms, fail) ==
    IF ms.color_mesh = NoMesh THEN Result(ms, NotFoundError, <<>>)
    ELSE LET s1 == [ms EXCEPT !.color_mesh = NoMesh]
             h == ms.mpl_quad_mesh
         IN  IF h = NoHandle THEN Result(s1, AttributeErr, <<>>)
             ELSE IF fail = "destroy"
             THEN Result(s1, RendererError, <<Call("destroy", h, "", FALSE)>>)
             ELSE Result([s1 EXCEPT !.mpl_quad_mesh = NoHandle,
                                    !.live = @ \ {h}],
                         OK, <<Call("destroy", h, "", TRUE)>>)

\* Figure._add_mpl_quad_mesh / Figure3D._add_mpl_surf: pcolormesh or
\* plot_surface creates the matplotlib object (or raises), then it is stored.
add_mpl_quad_mesh(ms, m, fail) ==
    IF fail = "materialize"
    THEN Result(ms, RendererError, <<Call("materialize", 0, MeshCmap[m], FALSE)>>)
    ELSE LET h == ms.nextHandle IN
         Result([ms EXCEPT !.mpl_quad_mesh = h, !.live = @ \cup {h},
                           !.nextHandle = h + 1],
                OK, <<Call("materialize", h, MeshCmap[m], TRUE)>>)

\* add_color_mesh, had it treated every call as overwrite=True.
add_color_mesh_ignore_flag(ms, m, overwrite, fail) ==
    LET r1 == IF ms.color_mesh # NoMesh THEN remove_color_mesh(ms, fail)
              ELSE Result(ms, OK, <<>>)
    IN  IF r1.exc # OK THEN r1
        ELSE LET r2 == add_mpl_quad_mesh(r1.st, m, fail) IN
             IF r2.exc # OK THEN Result(r2.st, r2.exc, r1.calls \o r2.calls)
             ELSE Result([r2.st EXCEPT !.color_mesh = m], OK,
                         r1.calls \o r2.calls)

\* Figure.add_color_mesh / Figure3D.add_color_mesh
add_color_mesh(ms, m, overwrite, fail) ==
    IF ms.color_mesh # NoMesh /\ ~overwrite
    THEN Result(ms, SlotOccupiedError, <<>>)
    ELSE LET r1 == IF ms.color_mesh # NoMesh THEN remove_color_mesh(ms, fail)
                   ELSE Result(ms, OK, <<>>)
         IN  IF r1.exc # OK THEN r1
             ELSE LET r2 == add_mpl_quad_mesh(r1.st, m, fail) IN
                  IF r2.exc # OK
                  THEN Result(r2.st, r2.exc, r1.calls \o r2.calls)
                  ELSE Result([r2.st EXCEPT !.color_mesh = m], OK,
                              r1.calls \o r2.calls)

CommitMesh(r) ==
    /\ color_mesh' = r.st.color_mesh
    /\ mpl_quad_mesh' = r.st.mpl_quad_mesh
    /\ live' = r.st.live
    /\ nextHandle' = r.st.nextHandle

\* A call of add_color_mesh(color_mesh, overwrite); last.art is the ColorMesh
AddColorMesh(m, overwrite, fail) ==
    /\ LET r == add_color_mesh(MeshState, m, overwrite, fail)
       IN  /\ r.st.nextHandle <= MaxHandles + 1
           /\ Injected(fail, r)
           /\ CommitMesh(r)
           /\ last' = Last("add_mesh", m, NoName, overwrite, NoSel,
                           r.exc, r.calls)
    /\ UNCHANGED <<proj, artName, artists, mpl_artists, hidden, legend_artists,
                   mpl_legend, autoscale, lims, coords, obj, args>>

\* A call of remove_color_mesh()
RemoveColorMesh(fail) ==
    /\ LET r == remove_color_mesh(MeshState, fail)
       IN  /\ Injected(fail, r)
           /\ CommitMesh(r)
           /\ last' = Last("remove_mesh", NoMesh, NoName, FALSE, NoSel,
                           r.exc, r.calls)
    /\ UNCHANGED <<proj, artName, artists, mpl_artists, hidden, legend_artists,
                   mpl_legend, autoscale, lims, coords, obj, args>>

\* ------------------------------------------------------------- colorbar
\* What np.min / mcolors.Normalize / get_cmap raise in add_colorbar for an
\* Artist.  An Artist's color is a color name, or for Points an array of
\* numbers: reducing a string raises TypeError (ValueError for an empty
\* array, or where the string only fails in Normalize), and no Artist class
\* defines get_cmap, which raises AttributeError when the reduction succeeds.
ColorbarFailures == {TypeErr, ValueErr, AttributeErr}

\* _Figure.add_colorbar(name); name = NoName is the default name=None.  exc is
\* the exception the library raises for a registered Artist.
add_colorbar(figArtists, mesh, name, exc) ==
    IF name # NoName
    THEN IF ~DictHas(figArtists, name) THEN Result(<<>>, NotFoundError, <<>>)
         ELSE Result(<<>>, exc, <<>>)
    ELSE IF mesh = NoMesh THEN Result(<<>>, AttributeErr, <<>>)
         ELSE Result(<<>>, OK, <<Call("colorbar", 0, MeshCmap[mesh], TRUE)>>)

\* A call of add_colorbar(name): the Figure keeps no reference to a colorbar
AddColorbar(name, exc) ==
    /\ LET r == add_colorbar(artists, color_mesh, name, exc)
       IN  /\ last' = Last("add_colorbar", NoArt, name, FALSE, NoSel,
                       r.exc, r.calls)
    /\ UNCHANGED <<proj, artName, artists, mpl_artists, live, hidden,
                   nextHandle, legend_artists, mpl_legend, color_mesh,
                   mpl_quad_mesh, autoscale, lims, coords, obj, args>>

\* ---------------------------------------------------------------- scale
OptionsErr == "OptionsError"

Xs(pts) == [i \in DOMAIN pts |-> pts[i][1]]
Ys(pts) == [i \in DOMAIN pts |-> pts[i][2]]

\* np.min / np.max of a non-empty 1-D array
np_min(v) == CHOOSE m \in {v[i] : i \in DOMAIN v} :
                 \A i \in DOMAIN v : m <= v[i]
np_max(v) == CHOOSE m \in {v[i] : i \in DOMAIN v} :
                 \A i \in DOMAIN v : m >= v[i]

\* np.concatenate of the data of the artists in self._artists.values() order
RECURSIVE ArtistPts(_, _)
ArtistPts(figArtists, crd) ==
    IF figArtists = <<>> THEN <<>>
    ELSE crd[Head(figArtists)[2]] \o ArtistPts(Tail(figArtists), crd)

\* The xdata/ydata update_scale gathers
GatheredPts(figArtists, mesh, crd) ==
    IF Len(figArtists) = 0 THEN MeshPts[mesh]
    ELSE ArtistPts(figArtists, crd)
             \o (IF mesh # NoMesh THEN MeshPts[mesh] ELSE <<>>)

\* update_scale, had it left the ColorMesh out whenever artists are registered
update_scale_ignores_mesh(figArtists, mesh, policy, lm, crd) ==
    IF Len(figArtists) = 0 /\ mesh = NoMesh THEN Result(lm, OK, <<>>)
    ELSE LET pts == IF Len(figArtists) = 0 THEN MeshPts[mesh]
                    ELSE ArtistPts(figArtists, crd)
         IN  IF pts = <<>> THEN Result(lm, ValueErr, <<>>)
             ELSE LET x == <<np_min(Xs(pts)), np_max(Xs(pts))>>
                      y == <<np_min(Ys(pts)), np_max(Ys(pts))>>
                  IN  CASE policy = "all" ->
                             Result([x |-> x, y |-> y], OK,
                                    <<Call("set_xlim", 0, "", TRUE),
                                      Call("set_ylim", 0, "", TRUE)>>)
                        [] policy = "width" ->
                             Result([lm EXCEPT !.x = x], OK,
                                    <<Call("set_xlim", 0, "", TRUE)>>)
                        [] policy = "height" ->
                             Result([lm EXCEPT !.y = y], OK,
                                    <<Call("set_ylim", 0, "", TRUE)>>)
                        [] OTHER -> Result(lm, OK, <<>>)

\* Figure.update_scale: nothing to do on an empty Figure; otherwise the data is
\* gathered and reduced with np.min / np.max (which raise ValueError on an
\* empty array) and only then the policy is matched.
update_scale(figArtists, mesh, policy, lm, crd) ==
    IF Len(figArtists) = 0 /\ mesh = NoMesh THEN Result(lm, OK, <<>>)
    ELSE LET pts == GatheredPts(figArtists, mesh, crd)
         IN  IF pts = <<>> THEN Result(lm, ValueErr, <<>>)
             ELSE LET x == <<np_min(Xs(pts)), np_max(Xs(pts))>>
                      y == <<np_min(Ys(pts)), np_max(Ys(pts))>>
                  IN  CASE policy = "all" ->
                             Result([x |-> x, y |-> y], OK,
                                    <<Call("set_xlim", 0, "", TRUE),
                                      Call("set_ylim", 0, "", TRUE)>>)
                        [] policy = "width" ->
                             Result([lm EXCEPT !.x = x], OK,
                                    <<Call("set_xlim", 0, "", TRUE)>>)
                        [] policy = "height" ->
                             Result([lm EXCEPT !.y = y], OK,
                                    <<Call("set_ylim", 0, "", TRUE)>>)
                        [] OTHER -> Result(lm, OK, <<>>)

\* A call of Figure.update_scale(), directly or from Window.show on a '2d'
\* Window; Figure3D has no update_scale.
UpdateScale ==
    /\ proj = "2d"
    /\ LET r == update_scale(artists, color_mesh, autoscale, lims, coords)
       IN  /\ lims' = r.st
           /\ last' = Last("update_scale", NoArt, NoName, FALSE, NoSel,
                           r.exc, r.calls)
    /\ UNCHANGED <<proj, artName, artists, mpl_artists, live, hidden,
                   nextHandle, legend_artists, mpl_legend, color_mesh,
                   mpl_quad_mesh, autoscale, coords, obj, args>>

\* A call of Figure.set_autoscale(option); last.name is the option
AutoscaleInputs == AUTOSCALE_OPTIONS \cup {"auto"}
SetAutoscale(option) ==
    /\ proj = "2d"
    /\ IF option \in AUTOSCALE_OPTIONS
       THEN /\ autoscale' = option
            /\ last' = Last("set_autoscale", NoArt, option, FALSE, NoSel,
                            OK, <<>>)
       ELSE /\ autoscale' = autoscale
            /\ last' = Last("set_autoscale", NoArt, option, FALSE, NoSel,
                            OptionsErr, <<>>)
    /\ UNCHANGED <<proj, artName, artists, mpl_artists, live, hidden,
                   nextHandle, legend_artists, mpl_legend, color_mesh,
                   mpl_quad_mesh, lims, coords, obj, args>>

\* -------------------------------------------------------- Artist classes
\* AssertionError whose message says two arguments' sizes differ
ShapeMismatchErr == "ShapeMismatchError"

\* The size of np.array(v, dtype=float).flatten()
SizeOf(v) == IF v.t = "num" THEN 1 ELSE v.n

\* Artist.__init__: x and y are flattened and must have one size
Artist_init(o, x, y) ==
    IF x # y THEN Result(o, ShapeMismatchErr, <<>>)
    ELSE Result([o EXCEPT !.n = x], OK, <<>>)

\* Artist3D.__init__, had it stored z without comparing its size.
Artist3D_init_unchecked(o, x, y, z) == Artist_init(o, x, y)

\* Artist3D.__init__: Artist.__init__, then z must have the size of x
Artist3D_init(o, x, y, z) ==
    LET r == Artist_init(o, x, y) IN
    IF r.exc # OK THEN r
    ELSE IF r.st.n # z THEN Result(r.st, ShapeMismatchErr, <<>>)
    ELSE r

\* Line.set_color and Text.set_color: c in Artist.COLOR_OPTIONS (a list is
\* unhashable)
Line_set_color(o, c) ==
    IF c.t = "seq" THEN Result(o, TypeErr, <<>>)
    ELSE IF c.t = "str" /\ c.s \in COLOR_OPTIONS
    THEN Result([o EXCEPT !.c = c], OK, <<>>)
    ELSE Result(o, OptionsErr, <<>>)

\* Line.set_linewidth: stores lw as passed
Line_set_linewidth(o, lw) == Result([o EXCEPT !.lw = lw], OK, <<>>)

\* Line.set_linestyle, had it checked ls only while no linestyle was stored
\* (at construction).
Line_set_linestyle_once(o, ls) ==
    IF o.ls # Unset \/ ls \in LS_OPTIONS
    THEN Result([o EXCEPT !.ls = ls], OK, <<>>)
    ELSE Result(o, OptionsErr, <<>>)

\* Line.set_linestyle
Line_set_linestyle(o, ls) ==
    IF ls \in LS_OPTIONS THEN Result([o EXCEPT !.ls = ls], OK, <<>>)
    ELSE Result(o, OptionsErr, <<>>)

\* Points.set_color, had it only required the sequence to be no longer than
\* the data.
Points_set_color_at_most(o, c) ==
    IF c.t = "str"
    THEN IF c.s \in COLOR_OPTIONS THEN Result([o EXCEPT !.c = c], OK, <<>>)
         ELSE Result(o, OptionsErr, <<>>)
    ELSE IF SizeOf(c) > o.n THEN Result(o, ShapeMismatchErr, <<>>)
    ELSE Result([o EXCEPT !.c = NumSeq(SizeOf(c))], OK, <<>>)

\* Points.set_color: a string must be a color name; anything else is
\* flattened to an array whose size must be the size of xdata
Points_set_color(o, c) ==
    IF c.t = "str"
    THEN IF c.s \in COLOR_OPTIONS THEN Result([o EXCEPT !.c = c], OK, <<>>)
         ELSE Result(o, OptionsErr, <<>>)
    ELSE IF SizeOf(c) # o.n THEN Result(o, ShapeMismatchErr, <<>>)
    ELSE Result([o EXCEPT !.c = NumSeq(SizeOf(c))], OK, <<>>)

\* Points.set_size: a number is stored; anything else is converted to a float
\* array (ValueError for a string) whose size must be the size of xdata
Points_set_size(o, v) ==
    IF v.t = "num" THEN Result([o EXCEPT !.s = v], OK, <<>>)
    ELSE IF v.t = "str" THEN Result(o, ValueErr, <<>>)
    ELSE IF v.n # o.n THEN Result(o, ShapeMismatchErr, <<>>)
    ELSE Result([o EXCEPT !.s = v], OK, <<>>)

\* Arrows.set_color
Arrows_set_color(o, c) ==
    IF c.t = "num" THEN Result([o EXCEPT !.c = c], OK, <<>>)
    ELSE IF c.t = "str" THEN Result(o, ValueErr, <<>>)
    ELSE IF c.n # o.n THEN Result(o, ShapeMismatchErr, <<>>)
    ELSE Result([o EXCEPT !.c = c], OK, <<>>)

\* Arrows.set_pivot
Arrows_set_pivot(o, pivot) ==
    IF pivot \in PIVOT_OPTIONS THEN Result([o EXCEPT !.pivot = pivot], OK, <<>>)
    ELSE Result(o, OptionsErr, <<>>)

\* Text.set_size: stores s as passed
Text_set_size(o, v) == Result([o EXCEPT !.s = v], OK, <<>>)

\* Text.set_coord_type
Text_set_coord_type(o, coord_type) ==
    IF coord_type \in COORD_OPTIONS
    THEN Result([o EXCEPT !.coord_type = coord_type], OK, <<>>)
    ELSE Result(o, OptionsErr, <<>>)

\* Text.get_coord_type: return self._coord_type
Text_get_coord_type(o) ==
    IF o.coord_type = Unset THEN Result(Unset, AttributeErr, <<>>)
    ELSE Result(o.coord_type, OK, <<>>)

\* The __init__ of each class, statement by statement: a statement runs
\* unless an earlier one raised.  Straight passes the two scalars of xy, Text
\* and Text3D pass scalars: one point each.
Line_init(o, a) ==
    LET r1 == Artist_init(o, a.x, a.y)
        r2 == IF r1.exc # OK THEN r1 ELSE Line_set_color(r1.st, a.c)
        r3 == IF r2.exc # OK THEN r2 ELSE Line_set_linewidth(r2.st, a.lw)
    IN  IF r3.exc # OK THEN r3 ELSE Line_set_linestyle(r3.st, a.ls)

Points_init(o, a) ==
    LET r1 == Artist_init(o, a.x, a.y)
        r2 == IF r1.exc # OK THEN r1 ELSE Points_set_color(r1.st, a.c)
    IN  IF r2.exc # OK THEN r2 ELSE Points_set_size(r2.st, a.s)

Arrows_init(o, a) ==
    LET r1 == Artist_init(o, a.x, a.y)
        r2 == IF r1.exc # OK THEN r1
              ELSE IF a.u = a.v /\ a.v = r1.st.n THEN r1
              ELSE Result(r1.st, ShapeMismatchErr, <<>>)
        r3 == IF r2.exc # OK THEN r2 ELSE Arrows_set_color(r2.st, a.c)
    IN  IF r3.exc # OK THEN r3
        ELSE Result([r3.st EXCEPT !.pivot = a.pivot], OK, <<>>)

Text_init(o, a) ==
    LET r1 == Artist_init(o, a.x, a.y)
        r2 == IF r1.exc # OK THEN r1 ELSE Line_set_color(r1.st, a.c)
        r3 == IF r2.exc # OK THEN r2 ELSE Text_set_size(r2.st, a.s)
    IN  IF r3.exc # OK THEN r3 ELSE Text_set_coord_type(r3.st, a.coord_type)

Line3D_init(o, a) ==
    LET r1 == Artist3D_init(o, a.x, a.y, a.z)
        r2 == IF r1.exc # OK THEN r1 ELSE Line_set_color(r1.st, a.c)
        r3 == IF r2.exc # OK THEN r2 ELSE Line_set_linewidth(r2.st, a.lw)
    IN  IF r3.exc # OK THEN r3 ELSE Line_set_linestyle(r3.st, a.ls)

Points3D_init(o, a) ==
    LET r1 == Artist3D_init(o, a.x, a.y, a.z)
        r2 == IF r1.exc # OK THEN r1 ELSE Points_set_color(r1.st, a.c)
    IN  IF r2.exc # OK THEN r2 ELSE Points_set_size(r2.st, a.s)

Text3D_init(o, a) ==
    LET r1 == Artist3D_init(o, a.x, a.y, a.z)
        r2 == IF r1.exc # OK THEN r1 ELSE Line_set_color(r1.st, a.c)
    IN  IF r2.exc # OK THEN r2 ELSE Text_set_size(r2.st, a.s)

\* Kind(...): the constructor call of class a.kind with arguments a
Construct(a) ==
    LET o == [NoObj EXCEPT !.kind = a.kind] IN
    CASE a.kind \in {"Line", "Straight"} -> Line_init(o, a)
      [] a.kind = "Points" -> Points_init(o, a)
      [] a.kind = "Arrows" -> Arrows_init(o, a)
      [] a.kind = "Text" -> Text_init(o, a)
      [] a.kind = "Line3D" -> Line3D_init(o, a)
      [] a.kind = "Points3D" -> Points3D_init(o, a)
      [] a.kind = "Text3D" -> Text3D_init(o, a)

\* The values passed.  A constructor call passes the defaults of its class
\* except for one group of arguments: the coordinate sequences, or one style.
ColorInputs == {Str("k"), Str("red"), Str("nocolor"), Num}
                   \cup {NumSeq(k) : k \in Lens}
SizeInputs == {Num} \cup {NumSeq(k) : k \in Lens}
LwInputs == {-1, 0, 1}
LsInputs == {"solid", "dashed", "dotted", "dashdot", "-", "--", ":", "-.",
             "--:", "dashes"}
PivotInputs == PIVOT_OPTIONS \cup {"top"}
CoordInputs == COORD_OPTIONS \cup {"pixels"}

Defaults(kind) ==
    Args(kind, 1, 1, IF Is3D(kind) THEN 1 ELSE NoLen,
         IF kind = "Arrows" THEN 1 ELSE NoLen,
         IF kind = "Arrows" THEN 1 ELSE NoLen,
         IF kind = "Arrows" THEN Num ELSE Str("k"),
         IF IsLine(kind) THEN 1 ELSE 0,
         IF IsLine(kind) THEN "solid" ELSE Unset,
         IF IsLine(kind) \/ kind = "Arrows" THEN NoVal ELSE Num,
         IF kind = "Arrows" THEN "mid" ELSE Unset,
         IF IsText(kind) THEN "data" ELSE Unset)

CoordArgs(kind) ==
    LET d == Defaults(kind) IN
    CASE kind \in {"Line", "Points"} ->
             {[d EXCEPT !.x = x, !.y = y] : x \in Lens, y \in Lens}
      [] kind \in {"Line3D", "Points3D"} ->
             {[d EXCEPT !.x = t[1], !.y = t[2], !.z = t[3]] :
                  t \in Lens \X Lens \X Lens}
      [] kind = "Arrows" ->
             {[d EXCEPT !.x = t[1], !.y = t[2], !.u = t[3], !.v = t[4]] :
                  t \in Lens \X Lens \X Lens \X Lens}
      [] OTHER -> {d}

StyleArgs(kind) ==
    LET d == Defaults(kind) IN
    {[d EXCEPT !.c = c] : c \in ColorInputs}
        \cup (IF IsLine(kind)
              THEN {[d EXCEPT !.lw = lw] : lw \in LwInputs}
                       \cup {[d EXCEPT !.ls = ls] : ls \in LsInputs}
              ELSE {})
        \cup (IF IsPoints(kind) THEN {[d EXCEPT !.s = v] : v \in SizeInputs}
              ELSE {})
        \cup (IF kind = "Arrows"
              THEN {[d EXCEPT !.pivot = pv] : pv \in PivotInputs} ELSE {})
        \cup (IF IsText(kind)
              THEN {[d EXCEPT !.coord_type = ct] : ct \in CoordInputs}
              ELSE {})

CtorInputs == UNION {CoordArgs(k) \cup StyleArgs(k) : k \in ObjKinds}

\* A constructor call; when it raises, no Artist is returned
New(a) ==
    /\ LET r == Construct(a)
       IN  /\ obj' = IF r.exc = OK THEN r.st ELSE NoObj
           /\ last' = Last("new", NoArt, NoName, FALSE, NoSel, r.exc, <<>>)
    /\ args' = a
    /\ UNCHANGED <<proj, artName, artists, mpl_artists, live, hidden,
                   nextHandle, legend_artists, mpl_legend, color_mesh,
                   mpl_quad_mesh, autoscale, lims, coords>>

\* A setter call on the Artist held; op names the method, r is its result
Setter(op, a, r) ==
    /\ obj # NoObj
    /\ obj' = r.st
    /\ args' = a
    /\ last' = Last(op, NoArt, NoName, FALSE, NoSel, r.exc, <<>>)
    /\ UNCHANGED <<proj, artName, artists, mpl_artists, live, hidden,
                   nextHandle, legend_artists, mpl_legend, color_mesh,
                   mpl_quad_mesh, autoscale, lims, coords>>

\* obj.set_color(c), by the class of obj (every Artist subclass has one)
SetColor(c) ==
    Setter("set_color", [NoArgs EXCEPT !.c = c],
           CASE IsPoints(obj.kind) -> Points_set_color(obj, c)
             [] obj.kind = "Arrows" -> Arrows_set_color(obj, c)
             [] OTHER -> Line_set_color(obj, c))

SetLinewidth(lw) ==
    /\ IsLine(obj.kind)
    /\ Setter("set_linewidth", [NoArgs EXCEPT !.lw = lw],
              Line_set_linewidth(obj, lw))

SetLinestyle(ls) ==
    /\ IsLine(obj.kind)
    /\ Setter("set_linestyle", [NoArgs EXCEPT !.ls = ls],
              Line_set_linestyle(obj, ls))

SetSize(v) ==
    /\ IsPoints(obj.kind)
    /\ Setter("set_size", [NoArgs EXCEPT !.s = v], Points_set_size(obj, v))

SetPivot(pivot) ==
    /\ obj.kind = "Arrows"
    /\ Setter("set_pivot", [NoArgs EXCEPT !.pivot = pivot],
              Arrows_set_pivot(obj, pivot))

SetCoordType(coord_type) ==
    /\ IsText(obj.kind)
    /\ Setter("set_coord_type", [NoArgs EXCEPT !.coord_type = coord_type],
              Text_set_coord_type(obj, coord_type))

\* obj.get_coord_type(): the value returned is recorded in args.coord_type
GetCoordType ==
    /\ IsText(obj.kind)
    /\ LET r == Text_get_coord_type(obj)
       IN  Setter("get_coord_type", [NoArgs EXCEPT !.coord_type = r.st],
                  Result(obj, r.exc, <<>>))

\* The registry alone; matplotlib calls may raise.
Next ==
    \/ \E a \in Artists, label \in Labels, ow \in BOOLEAN, fail \in Failures :
            AddArtist(a, label, ow, fail)
    \/ \E n \in Names, fail \in Failures : RemoveArtist(n, fail)
    \/ \E n \in Names, v \in BOOLEAN : SetVisible(n, v)

Spec == Init /\ [][Next]_vars

\* The registry and its Legend; matplotlib calls return.
NextLegend ==
    \/ \E a \in Artists, ow \in BOOLEAN : AddArtist(a, "", ow, "none")
    \/ \E n \in Names : RemoveArtist(n, "none")
    \/ \E sel \in Selectors : LegendAdd(sel)
    \/ \E sel \in Selectors : LegendRemove(sel)

SpecLegend == Init /\ [][NextLegend]_vars

\* The registry and the ColorMesh slot with a matplotlib that never raises.
NextHandles ==
    \/ \E a \in Artists, ow \in BOOLEAN : AddArtist(a, "", ow, "none")
    \/ \E n \in Names : RemoveArtist(n, "none")
    \/ \E m \in Meshes, ow \in BOOLEAN : AddColorMesh(m, ow, "none")
    \/ RemoveColorMesh("none")
SpecHandles == Init /\ [][NextHandles]_vars

\* The ColorMesh slot alone, with a matplotlib whose calls may raise.
NextMesh ==
    \/ \E m \in Meshes, ow \in BOOLEAN, fail \in Failures :
           AddColorMesh(m, ow, fail)
    \/ \E fail \in Failures : RemoveColorMesh(fail)
SpecMesh == Init /\ [][NextMesh]_vars

\* Colorbars on a Figure that artists and a ColorMesh are added to.
NextColorbar ==
    \/ \E a \in Artists : AddArtist(a, "", FALSE, "none")
    \/ \E m \in Meshes : AddColorMesh(m, FALSE, "none")
    \/ \E n \in Names \cup {NoName}, exc \in ColorbarFailures :
           AddColorbar(n, exc)
SpecColorbar == Init /\ [][NextColorbar]_vars

\* A 2D Figure whose artists were constructed with any of the coordinate
\* options, scaled under every policy.
InitScale ==
    /\ proj = "2d"
    /\ artName = ArtNames
    /\ artists = <<>>
    /\ mpl_artists = <<>>
    /\ live = {}
    /\ hidden = {}
    /\ nextHandle = 1
    /\ legend_artists = <<>>
    /\ mpl_legend = [handles |-> <<>>, visible |-> FALSE]
    /\ color_mesh = NoMesh
    /\ mpl_quad_mesh = NoHandle
    /\ autoscale = "none"
    /\ lims = DefaultLims
    /\ coords \in {c \in [Artists -> {NoPts, PtsA, PtsB, TextPts}] :
                       \A a \in Artists : c[a] \in CoordOptions(a)}
    /\ obj = NoObj
    /\ args = NoArgs
    /\ last = Last("init", NoArt, NoName, FALSE, NoSel, OK, <<>>)
NextScale ==
    \/ \E a \in Artists : AddArtist(a, "", FALSE, "none")
    \/ \E m \in Meshes : AddColorMesh(m, FALSE, "none")
    \/ \E o \in AutoscaleInputs : SetAutoscale(o)
    \/ UpdateScale
SpecScale == InitScale /\ [][NextScale]_vars

\* Visibility on a Figure that also has a Legend in use and a ColorMesh.
NextVisible ==
    \/ \E a \in Artists : AddArtist(a, "", FALSE, "none")
    \/ \E n \in Names, v \in BOOLEAN : SetVisible(n, v)
    \/ LegendAdd(SelAll)
    \/ \E m \in Meshes : AddColorMesh(m, FALSE, "none")
SpecVisible == Init /\ [][NextVisible]_vars

\* The registry with a matplotlib whose calls may raise, on a Figure that also
\* has a Legend in use and axis limits set by update_scale.
NextFrame ==
    \/ \E a \in Artists, ow \in BOOLEAN, fail \in Failures :
           AddArtist(a, "", ow, fail)
    \/ \E n \in Names, fail \in Failures : RemoveArtist(n, fail)
    \/ LegendAdd(SelAll)
    \/ SetAutoscale("all")
    \/ UpdateScale
SpecFrame == Init /\ [][NextFrame]_vars

\* Artists constructed and restyled, apart from any Figure.
NextArtist ==
    \/ \E a \in CtorInputs : New(a)
    \/ \E c \in ColorInputs : SetColor(c)
    \/ \E lw \in LwInputs : SetLinewidth(lw)
    \/ \E ls \in LsInputs : SetLinestyle(ls)
    \/ \E v \in SizeInputs : SetSize(v)
    \/ \E pv \in PivotInputs : SetPivot(pv)
    \/ \E ct \in CoordInputs : SetCoordType(ct)
    \/ GetCoordType
InitArtist == Init /\ proj = "2d"
SpecArtist == InitArtist /\ [][NextArtist]_vars

\* The registry and Artists the caller renames; matplotlib calls return.
NextNames ==
    \/ \E a \in Artists, ow \in BOOLEAN : AddArtist(a, "", ow, "none")
    \/ \E n \in Names : RemoveArtist(n, "none")
    \/ \E a \in Artists, n \in Names : SetName(a, n)
SpecNames == Init /\ [][NextNames]_vars

\* The validating setters, called again and again on Artists constructed with
\* the defaults of their class and on a Figure.
NextSetters ==
    \/ \E k \in ObjKinds : New(Defaults(k))
    \/ \E c \in ColorInputs : SetColor(c)
    \/ \E ls \in LsInputs : SetLinestyle(ls)
    \/ \E v \in SizeInputs : SetSize(v)
    \/ \E pv \in PivotInputs : SetPivot(pv)
    \/ \E ct \in CoordInputs : SetCoordType(ct)
    \/ \E o \in AutoscaleInputs : SetAutoscale(o)
SpecSetters == InitArtist /\ [][NextSetters]_vars

\* ================================================================ claims
\* What a registry call may touch.
RegistryUnchanged ==
    /\ artists' = artists
    /\ mpl_artists' = mpl_artists
    /\ live' = live
    /\ hidden' = hidden

\* The listed names of an explicit selector that are not valid selections.
InvalidIn(sel, figArtists) ==
    {i \in DOMAIN sel.names : ~ValidSelection(figArtists, sel.names[i])}

AllCallsReturned(calls) == \A i \in DOMAIN calls : calls[i].ok

\* C1: in every reachable state, whatever add_artist (with or without
\* overwrite), remove_artist and set_visible calls were made and whether they
\* returned or raised, _artists and _mpl_artists have the same key set.
C1_SameKeySets == DictKeys(artists) = DictKeys(mpl_artists)

\* C1 witness: of two registered names one was just removed by a
\* remove_artist call whose matplotlib remove() raised; the other is still
\* registered.
C1_Witness ==
    /\ last.op = "remove" /\ last.outcome = RendererError
    /\ Len(artists) = 1 /\ Cardinality(live) = 2

\* C2: add_artist of an Artist whose name is already registered, with
\* overwrite=False, raises the "already displayed or taken" error, calls
\* nothing in matplotlib and leaves both mappings, their stored Artists and
\* handles, and the axes as they were.
C2_DuplicateRejected ==
    [][(last'.op = "add" /\ ~last'.overwrite /\ DictHas(artists, last'.name))
       => /\ last'.outcome = DuplicateNameError
          /\ last'.calls = <<>>
          /\ RegistryUnchanged
          /\ nextHandle' = nextHandle]_vars

\* C2 witness: a rejected add of an Artist other than the stored one.
C2_Witness ==
    /\ last.op = "add" /\ last.outcome = DuplicateNameError
    /\ DictHas(artists, last.name)
    /\ DictGet(artists, last.name) # last.art

\* C3: add_artist of a drawable Artist whose name is already registered, with
\* overwrite=True, returns when the matplotlib calls return; afterwards the
\* name has exactly one entry, which holds the added Artist and the handle
\* the new draw call returned, and the handle stored before is off the axes.
C3_OverwriteReplaces ==
    [][(last'.op = "add" /\ last'.overwrite /\ DictHas(artists, last'.name))
       => LET n == last'.name
              old == DictGet(mpl_artists, n)
              c == last'.calls
          IN  /\ (DrawOutcome(proj, KindOf(last'.art)) = OK
                    /\ AllCallsReturned(c)) => last'.outcome = OK
              /\ last'.outcome = OK =>
                   /\ Cardinality({i \in DOMAIN artists' :
                                      artists'[i][1] = n}) = 1
                   /\ Cardinality({i \in DOMAIN mpl_artists' :
                                      mpl_artists'[i][1] = n}) = 1
                   /\ DictGet(artists', n) = last'.art
                   /\ Len(c) = 2
                   /\ c[1] = Call("destroy", old, "", TRUE)
                   /\ c[2].call = "materialize" /\ c[2].ok
                   /\ DictGet(mpl_artists', n) = c[2].h
                   /\ c[2].h # old /\ c[2].h \in live'
                   /\ old \notin live']_vars

\* C3 witness: an overwrite that replaced the stored Artist by another one
\* while a second name was registered.
C3_Witness ==
    /\ last.op = "add" /\ last.overwrite /\ last.outcome = OK
    /\ Len(last.calls) = 2
    /\ Len(artists) = 2
    /\ DictGet(artists, last.name) = last.art

\* C4 (as claimed): every add_artist call that raises leaves the registry
\* and the axes exactly as before the call.
C4_FailedAddChangesNothing ==
    [][(last'.op = "add" /\ last'.outcome # OK) => RegistryUnchanged]_vars

\* C5 (as claimed): every name of Legend._artists is a key of
\* Figure._artists.
C5_LegendWithinRegistry == DictKeys(legend_artists) \subseteq DictKeys(artists)

\* C6 (as claimed): Legend.remove with an explicit list holding an invalid
\* name raises and leaves Legend._artists and the panel as they were.
C6_LegendRemoveAllOrNothing ==
    [][(last'.op = "legend_remove" /\ last'.sel.kind = "list"
          /\ InvalidIn(last'.sel, artists) # {})
       => /\ last'.outcome # OK
          /\ legend_artists' = legend_artists
          /\ mpl_legend' = mpl_legend]_vars

\* C7: Legend.add with an explicit list holding an invalid name (not
\* registered, or registered as a Text) raises the selection error, makes no
\* matplotlib call and leaves Legend._artists and the panel as they were,
\* wherever in the list the invalid name stands.
C7_LegendAddAllOrNothing ==
    [][(last'.op = "legend_add" /\ last'.sel.kind = "list"
          /\ InvalidIn(last'.sel, artists) # {})
       => /\ last'.outcome = InvalidSelectionError
          /\ last'.calls = <<>>
          /\ legend_artists' = legend_artists
          /\ mpl_legend' = mpl_legend]_vars

\* C7 witness: a rejected list whose first name was valid and not yet in the
\* Legend, and whose second name was invalid.
C7_Witness ==
    /\ last.op = "legend_add" /\ last.outcome = InvalidSelectionError
    /\ Len(last.sel.names) = 2
    /\ InvalidIn(last.sel, artists) = {2}
    /\ ~DictHas(legend_artists, last.sel.names[1])

\* C8: from any reachable registry, add_artist of a drawable Artist whose
\* name is not registered followed by remove_artist of that name (matplotlib
\* calls returning) gives back the registry as it was: both mappings with
\* their order, Artists and handles, and the axes; the handle the add drew
\* is off the axes again.
C8_AddRemoveRoundTrip ==
    \A a \in Artists, label \in Labels :
        LET n == artName[a]
            r1 == add_artist(FigState, proj, a, n, label, FALSE, "none")
            r2 == remove_artist(r1.st, n, "none")
        IN  (~DictHas(artists, n) /\ DrawOutcome(proj, KindOf(a)) = OK)
            => /\ r1.exc = OK
               /\ DictGet(r1.st.artists, n) = a
               /\ DictGet(r1.st.mpl_artists, n) = nextHandle
               /\ nextHandle \in r1.st.live
               /\ r2.exc = OK
               /\ r2.st.artists = artists
               /\ r2.st.mpl_artists = mpl_artists
               /\ r2.st.live = live
               /\ r2.st.hidden = hidden
               /\ r2.calls = <<Call("destroy", nextHandle, "", TRUE)>>

\* C8 witness: the handle just removed is the one drawn most recently, and
\* another name is still registered.
C8_Witness ==
    /\ last.op = "remove" /\ last.outcome = OK
    /\ last.calls[1].h = nextHandle - 1
    /\ artists # <<>>
    /\ ~DictHas(artists, last.name)

\* C9: remove_artist(name) of an unregistered name raises the "wasn't found"
\* error, calls nothing in matplotlib and changes nothing; of a registered
\* name it returns when matplotlib's remove() returns, has then taken exactly
\* that name's handle off the axes and that name out of both mappings, and
\* every other entry is as before.
C9_RemoveExactlyOne ==
    [][last'.op = "remove"
       => LET n == last'.name IN
          IF ~DictHas(artists, n)
          THEN /\ last'.outcome = NotFoundError
               /\ last'.calls = <<>>
               /\ RegistryUnchanged
          ELSE /\ AllCallsReturned(last'.calls) => last'.outcome = OK
               /\ last'.outcome = OK =>
                    /\ last'.calls =
                         <<Call("destroy", DictGet(mpl_artists, n), "", TRUE)>>
                    /\ live' = live \ {DictGet(mpl_artists, n)}
                    /\ DictKeys(artists') = DictKeys(artists) \ {n}
                    /\ DictKeys(mpl_artists') = DictKeys(mpl_artists) \ {n}
                    /\ Len(artists') = Len(artists) - 1
                    /\ Len(mpl_artists') = Len(mpl_artists) - 1
                    /\ \A m \in DictKeys(artists') :
                         /\ DictGet(artists', m) = DictGet(artists, m)
                         /\ DictGet(mpl_artists', m) = DictGet(mpl_artists, m)
         ]_vars

\* C9 witness: a remove that returned and left the other entry registered.
C9_Witness ==
    /\ last.op = "remove" /\ last.outcome = OK
    /\ Len(artists) = 1 /\ Len(last.calls) = 1

\* C10 (as claimed): when matplotlib's remove() raises inside remove_artist,
\* the name is still a key of both mappings with its Artist and handle.
C10_FailedDestroyChangesNothing ==
    [][(last'.op = "remove" /\ last'.outcome = RendererError)
       => /\ artists' = artists
          /\ mpl_artists' = mpl_artists]_vars

\* The handles Figure._mpl_artists holds for the names of a Legend subset, in
\* the subset's iteration order.
HandlesOf(leg, figMpl) == [i \in DOMAIN leg |-> DictGet(figMpl, leg[i][1])]

LegendCall(l) == l.op \in {"legend_add", "legend_remove"}

\* C11: after every Legend.add or Legend.remove call that returns, the panel
\* is visible exactly when Legend._artists is non-empty; when visible it was
\* built in this call from the handles Figure._mpl_artists holds for the
\* subset's names, in the subset's order; when the subset is empty the panel
\* object is kept (no new panel is built, only set_visible(False) is called).
C11_PanelFollowsSubset ==
    [][(LegendCall(last') /\ last'.outcome = OK)
       => /\ mpl_legend'.visible <=> (legend_artists' # <<>>)
          /\ legend_artists' # <<>> =>
               /\ mpl_legend'.handles = HandlesOf(legend_artists', mpl_artists')
               /\ last'.calls = <<Call("legend", 0, "", TRUE),
                                  Call("legend_visible", 0, "True", TRUE)>>
          /\ legend_artists' = <<>> =>
               /\ mpl_legend'.handles = mpl_legend.handles
               /\ last'.calls = <<Call("legend_visible", 0, "False", TRUE)>>
      ]_vars

\* C11 witness: a Legend.remove('all') that hid a panel built from two
\* handles whose order in the Legend was not the registry's order.
C11_Witness ==
    /\ last.op = "legend_remove" /\ last.outcome = OK
    /\ legend_artists = <<>> /\ ~mpl_legend.visible
    /\ Len(mpl_legend.handles) = 2 /\ Len(mpl_artists) = 2
    /\ mpl_legend.handles[1] = mpl_artists[2][2]

\* C12 (as claimed): every handle the visible panel was built from is on the
\* axes and is held by Figure._mpl_artists.
C12_PanelHandlesLive ==
    mpl_legend.visible =>
        \A i \in DOMAIN mpl_legend.handles :
            /\ mpl_legend.handles[i] \in live
            /\ \E j \in DOMAIN mpl_artists :
                   mpl_artists[j][2] = mpl_legend.handles[i]

StoredHandles(figMpl, quad) ==
    {figMpl[i][2] : i \in DOMAIN figMpl}
        \cup (IF quad = NoHandle THEN {} ELSE {quad})

Destroyed(calls) == {i \in DOMAIN calls : calls[i].call = "destroy"}

\* C14: with a matplotlib that never raises, after every call the handles on
\* the axes are exactly the handles the Figure holds, each held once (under
\* one name or as the ColorMesh's object), every other handle obtained so far
\* is off the axes, and every remove() of the call was made once, on a handle
\* that was on the axes and is off the axes afterwards.
C14_HandlesStoredOrDestroyedOnce ==
    [][/\ live' = StoredHandles(mpl_artists', mpl_quad_mesh')
       /\ live' \subseteq 1..(nextHandle' - 1)
       /\ \A i, j \in DOMAIN mpl_artists' :
              mpl_artists'[i][2] = mpl_artists'[j][2] => i = j
       /\ \A i \in DOMAIN mpl_artists' : mpl_artists'[i][2] # mpl_quad_mesh'
       /\ \A i \in Destroyed(last'.calls) :
              /\ last'.calls[i].h \in live
              /\ last'.calls[i].h \notin live'
              /\ \A j \in Destroyed(last'.calls) :
                     last'.calls[j].h = last'.calls[i].h => i = j
       /\ last'.outcome # RendererError
      ]_vars

\* C14 witness: a ColorMesh was overwritten (its old object removed, a new one
\* created) while the registry holds an artist, so one handle obtained so far
\* is off the axes and two are held.
C14_Witness ==
    /\ last.op = "add_mesh" /\ last.outcome = OK /\ Len(last.calls) = 2
    /\ Len(mpl_artists) >= 1
    /\ Cardinality(live) = 2
    /\ nextHandle - 1 > Cardinality(live)

MeshCall(l) == l.op \in {"add_mesh", "remove_mesh"}

\* C15 (as claimed): in every state reached by add_color_mesh and
\* remove_color_mesh calls, returning or raising, _color_mesh and the
\* ColorMesh's matplotlib object are both set or both None.
C15_MeshSlotAndHandleTogether ==
    (color_mesh = NoMesh) <=> (mpl_quad_mesh = NoHandle)

\* C16: add_color_mesh on a Figure holding a ColorMesh with overwrite=False
\* raises the "already taken" error, remove_color_mesh on a Figure holding
\* none raises the "wasn't found" error, both without a matplotlib call and
\* without changing _color_mesh or its matplotlib object; add_color_mesh with
\* overwrite=True that returns has removed the old object, then created the
\* new one, and holds the new ColorMesh and the new object.
C16_MeshSlotErrorsAndOverwrite ==
    [][/\ (last'.op = "add_mesh" /\ color_mesh # NoMesh /\ ~last'.overwrite)
             => /\ last'.outcome = SlotOccupiedError
                /\ last'.calls = <<>>
                /\ UNCHANGED <<color_mesh, mpl_quad_mesh, live, nextHandle>>
       /\ (last'.op = "remove_mesh" /\ color_mesh = NoMesh)
             => /\ last'.outcome = NotFoundError
                /\ last'.calls = <<>>
                /\ UNCHANGED <<color_mesh, mpl_quad_mesh, live, nextHandle>>
       /\ (last'.op = "add_mesh" /\ color_mesh # NoMesh /\ last'.overwrite)
             => /\ (AllCallsReturned(last'.calls) => last'.outcome = OK)
                /\ last'.outcome = OK =>
                     /\ last'.calls =
                          <<Call("destroy", mpl_quad_mesh, "", TRUE),
                            Call("materialize", mpl_quad_mesh',
                                 MeshCmap[last'.art], TRUE)>>
                     /\ color_mesh' = last'.art
                     /\ mpl_quad_mesh' # mpl_quad_mesh
                     /\ mpl_quad_mesh' \in live'
                     /\ mpl_quad_mesh \notin live'
      ]_vars

\* C16 witness: an add_color_mesh(overwrite=True) replaced the ColorMesh: the
\* old object was removed and the new one is held.
C16_Witness ==
    /\ last.op = "add_mesh" /\ last.overwrite /\ last.outcome = OK
    /\ Len(last.calls) = 2
    /\ color_mesh = last.art
    /\ mpl_quad_mesh = last.calls[2].h
    /\ last.calls[1].h \notin live

\* C17 (as claimed): add_colorbar whose referenced object is absent (a name
\* that is not a key of _artists, or no name and no ColorMesh) raises the
\* "wasn't found" error and changes nothing.
C17_ColorbarAbsentNotFound ==
    [][(/\ last'.op = "add_colorbar"
        /\ \/ (last'.name # NoName /\ ~DictHas(artists, last'.name))
           \/ (last'.name = NoName /\ color_mesh = NoMesh))
       => /\ last'.outcome = NotFoundError
          /\ RegistryUnchanged
          /\ UNCHANGED <<color_mesh, mpl_quad_mesh>>
      ]_vars

\* C18 (as claimed): add_colorbar(name) with a name that is a key of _artists
\* returns and has asked matplotlib for one colorbar.
C18_ColorbarOfArtistSucceeds ==
    [][(/\ last'.op = "add_colorbar"
        /\ last'.name # NoName /\ DictHas(artists, last'.name))
       => /\ last'.outcome = OK
          /\ Len(last'.calls) = 1
          /\ last'.calls[1].call = "colorbar"
      ]_vars

\* C19 (as claimed): update_scale with autoscale 'none' returns without an
\* error and leaves xlim and ylim as they were, whatever the Figure holds.
C19_NonePolicyIsNoOp ==
    [][(last'.op = "update_scale" /\ autoscale = "none")
       => /\ last'.outcome = OK
          /\ last'.calls = <<>>
          /\ lims' = lims
      ]_vars

\* Every coordinate point the Figure holds: of each registered artist and of
\* the ColorMesh.
AllPts(figArtists, mesh, crd) ==
    UNION {{crd[figArtists[i][2]][k] : k \in DOMAIN crd[figArtists[i][2]]} :
               i \in DOMAIN figArtists}
        \cup (IF mesh = NoMesh THEN {}
              ELSE {MeshPts[mesh][k] : k \in DOMAIN MeshPts[mesh]})

\* The least and greatest value of coordinate c (1 = x, 2 = y) over S
Extent(S, c) ==
    <<CHOOSE lo \in {q[c] : q \in S} : \A q \in S : lo <= q[c],
      CHOOSE hi \in {q[c] : q \in S} : \A q \in S : hi >= q[c]>>

\* C20: when the Figure holds at least one coordinate value, update_scale
\* with autoscale 'width', 'height' or 'all' returns, sets each axis the
\* policy names to the [min, max] of that coordinate over every registered
\* artist and the ColorMesh, and leaves the other axis's limits unchanged.
C20_ScaleToDataExtent ==
    [][(/\ last'.op = "update_scale"
        /\ autoscale \in {"width", "height", "all"}
        /\ AllPts(artists, color_mesh, coords) # {})
       => LET S == AllPts(artists, color_mesh, coords) IN
          /\ last'.outcome = OK
          /\ lims'.x = IF autoscale \in {"width", "all"} THEN Extent(S, 1)
                       ELSE lims.x
          /\ lims'.y = IF autoscale \in {"height", "all"} THEN Extent(S, 2)
                       ELSE lims.y
      ]_vars

\* C20 witness: two artists with x-ranges [0,10] and [-5,3] and a ColorMesh
\* inside that range were scaled with 'all': xlim is (-5, 10).
C20_Witness ==
    /\ last.op = "update_scale" /\ last.outcome = OK
    /\ autoscale = "all"
    /\ Len(artists) = 2 /\ color_mesh # NoMesh
    /\ {coords[artists[i][2]] : i \in DOMAIN artists} = {PtsA, PtsB}
    /\ lims.x = <<-5, 10>>
    /\ lims.y = <<-1, 8>>

\* C21: add_artist with overwrite=True on a registered name never creates the
\* new matplotlib artist before it has removed the old one, and when it
\* returns the name is the last entry of _artists and of _mpl_artists while
\* the other entries keep their values and relative order.
C21_OverwriteRemoveThenAdd ==
    [][(last'.op = "add" /\ last'.overwrite /\ DictHas(artists, last'.name))
       => LET n == last'.name
              c == last'.calls
          IN  /\ \A i \in DOMAIN c :
                     c[i].call = "materialize"
                         => /\ i > 1
                            /\ c[1] = Call("destroy", DictGet(mpl_artists, n),
                                           "", TRUE)
              /\ last'.outcome = OK =>
                   /\ artists'[Len(artists')][1] = n
                   /\ mpl_artists'[Len(mpl_artists')][1] = n
                   /\ DictPop(artists', n) = DictPop(artists, n)
                   /\ DictPop(mpl_artists', n) = DictPop(mpl_artists, n)
      ]_vars

\* C21 witness: the overwritten name was registered before the other name
\* (its old handle is the older one) and now comes after it.
C21_Witness ==
    /\ last.op = "add" /\ last.overwrite /\ last.outcome = OK
    /\ Len(last.calls) = 2 /\ last.calls[1].call = "destroy"
    /\ Len(artists) = 2
    /\ artists[2][1] = last.name
    /\ last.calls[1].h < mpl_artists[1][2]

\* The names registered in Figure._artists for an Artist that is not a Text
NonTextNames(figArtists) ==
    {figArtists[i][1] : i \in {j \in DOMAIN figArtists :
                                   ~IsText(KindOf(figArtists[j][2]))}}

\* C22: in every reachable state in which every Legend name is a key of
\* Figure._artists, Legend.add('all') returns and leaves as Legend names
\* exactly the names registered for non-Text artists, and Legend.remove('all')
\* called next returns and leaves the Legend empty and the panel hidden.
C22_AddAllThenRemoveAll ==
    (DictKeys(legend_artists) \subseteq DictKeys(artists))
    => LET r1 == legend_add(LegState, artists, mpl_artists, SelAll)
           r2 == legend_remove(r1.st, artists, mpl_artists, SelAll)
       IN  /\ r1.exc = OK
           /\ DictKeys(r1.st.artists) = NonTextNames(artists)
           /\ r1.st.mpl_legend.visible <=> (NonTextNames(artists) # {})
           /\ r2.exc = OK
           /\ r2.st.artists = <<>>
           /\ ~r2.st.mpl_legend.visible

\* C22 witness: with a Text and a non-Text artist registered, the two calls
\* were made: the panel last built shows the non-Text artist's handle only,
\* the Legend is empty again and the panel is hidden.
C22_Witness ==
    /\ last.op = "legend_remove" /\ last.sel = SelAll /\ last.outcome = OK
    /\ Len(artists) = 2
    /\ Cardinality(NonTextNames(artists)) = 1
    /\ \E n \in NonTextNames(artists) :
           mpl_legend.handles = <<DictGet(mpl_artists, n)>>
    /\ legend_artists = <<>> /\ ~mpl_legend.visible
    /\ legend_add(LegState, artists, mpl_artists, SelAll).st.mpl_legend.visible

Listed(sel) == {sel.names[i] : i \in DOMAIN sel.names}

\* C23: a Legend.add with a list of names that returns merges the list into
\* Legend._artists: the keys are the old keys and the listed names, each key
\* once; every listed name maps to the Artist Figure._artists holds for it;
\* the old entries keep their positions and, when not listed, their values;
\* and the same call made again changes nothing.
C23_ListAddMerges ==
    [][(last'.op = "legend_add" /\ last'.sel.kind = "list"
            /\ last'.outcome = OK)
       => LET names == Listed(last'.sel) IN
          /\ DictKeys(legend_artists') = DictKeys(legend_artists) \cup names
          /\ \A i, j \in DOMAIN legend_artists' :
                 legend_artists'[i][1] = legend_artists'[j][1] => i = j
          /\ \A n \in names : DictGet(legend_artists', n) = DictGet(artists, n)
          /\ Len(legend_artists') >= Len(legend_artists)
          /\ \A i \in DOMAIN legend_artists :
                 /\ legend_artists'[i][1] = legend_artists[i][1]
                 /\ legend_artists[i][1] \notin names
                        => legend_artists'[i] = legend_artists[i]
          /\ LET again == legend_add([artists |-> legend_artists',
                                      mpl_legend |-> mpl_legend'],
                                     artists', mpl_artists', last'.sel)
             IN  /\ again.exc = OK
                 /\ again.st.artists = legend_artists'
                 /\ again.st.mpl_legend = mpl_legend'
      ]_vars

\* C23 witness: Legend.add(['g', 'f']) returned on a Legend that held 'f':
\* 'f' is still first and 'g' was added after it.
C23_Witness ==
    /\ last.op = "legend_add" /\ last.outcome = OK
    /\ last.sel = SelList(<<"g", "f">>)
    /\ Len(legend_artists) = 2
    /\ legend_artists[1][1] = "f" /\ legend_artists[2][1] = "g"

\* C24: set_visible(name, v) on a name that is not a key of _artists raises
\* the "wasn't found" error, makes no matplotlib call and changes nothing; on
\* a key it calls set_visible(v) on that name's matplotlib artist only, so
\* only that handle's flag becomes v, and both dicts, the axes' content, the
\* ColorMesh and the Legend are as before.
C24_SetVisibleFrame ==
    [][last'.op = "set_visible"
       => /\ UNCHANGED <<artists, mpl_artists, live, nextHandle, color_mesh,
                         mpl_quad_mesh, legend_artists, mpl_legend, lims>>
          /\ IF ~DictHas(artists, last'.name)
             THEN /\ last'.outcome = NotFoundError
                  /\ last'.calls = <<>>
                  /\ hidden' = hidden
             ELSE LET h == DictGet(mpl_artists, last'.name) IN
                  /\ last'.outcome = OK
                  /\ Len(last'.calls) = 1
                  /\ last'.calls[1].call = "set_visible"
                  /\ last'.calls[1].h = h
                  /\ hidden' \ {h} = hidden \ {h}
                  /\ h \in hidden' <=> last'.calls[1].arg = "False"
      ]_vars

\* C24 witness: one of two registered artists was hidden while the other
\* stayed visible, on a Figure with a ColorMesh and a shown Legend.
C24_Witness ==
    /\ last.op = "set_visible" /\ last.outcome = OK
    /\ Len(mpl_artists) = 2
    /\ hidden = {DictGet(mpl_artists, last.name)}
    /\ color_mesh # NoMesh
    /\ mpl_legend.visible

\* C25: every add_artist and remove_artist call, returning or raising, makes
\* no matplotlib call other than creating and removing artists and leaves
\* Legend._artists, the legend panel (content and visibility), the autoscale
\* policy and the axis limits as they were.
C25_RegistryLeavesLegendAndScale ==
    [][last'.op \in {"add", "remove"}
       => /\ UNCHANGED <<legend_artists, mpl_legend, autoscale, lims>>
          /\ \A i \in DOMAIN last'.calls :
                 last'.calls[i].call \in {"materialize", "destroy"}
      ]_vars

\* C25 witness: an artist shown in the Legend was removed from a scaled
\* Figure: its name is still in the Legend, the panel is still shown, and the
\* limits are those update_scale set.
C25_Witness ==
    /\ last.op = "remove" /\ last.outcome = OK
    /\ DictHas(legend_artists, last.name)
    /\ ~DictHas(artists, last.name)
    /\ mpl_legend.visible
    /\ lims # DefaultLims

\* The lengths of the coordinate sequences a constructor call passes
Supplied(a) == {a.x, a.y, a.z, a.u, a.v} \ {NoLen}

\* The style arguments of a constructor call are the defaults of its class
DefaultStyles(a) ==
    LET d == Defaults(a.kind)
    IN  /\ a.c = d.c /\ a.lw = d.lw /\ a.ls = d.ls
        /\ a.s = d.s /\ a.pivot = d.pivot /\ a.coord_type = d.coord_type

\* C26: a constructor call whose style arguments are the defaults returns an
\* Artist when the coordinate sequences passed (x, y, z for the 3D classes,
\* u, v for Arrows) all have one length, and raises the size-mismatch
\* AssertionError, returning no Artist, when two of them differ.
C26_ConstructionChecksLengths ==
    [][(last'.op = "new" /\ DefaultStyles(args'))
       => IF Cardinality(Supplied(args')) = 1
          THEN /\ last'.outcome = OK
               /\ obj'.kind = args'.kind
               /\ obj'.n = args'.x
          ELSE /\ last'.outcome = ShapeMismatchErr
               /\ obj' = NoObj
      ]_vars

\* C26 witness: Points3D(x, y, z) with x and y of one length and a z of
\* another was refused.
C26_Witness ==
    /\ last.op = "new" /\ last.outcome = ShapeMismatchErr
    /\ args.kind = "Points3D"
    /\ args.x = args.y /\ args.z # args.x
    /\ obj = NoObj

\* C27 (as claimed): every Arrows that exists has a pivot in
\* Arrows.PIVOT_OPTIONS; a constructor call passing another pivot raises the
\* options error, and a set_pivot passing another value raises it and leaves
\* the pivot as it was.
C27_PivotInOptions ==
    [][/\ obj'.kind = "Arrows" => obj'.pivot \in PIVOT_OPTIONS
       /\ (last'.op = "new" /\ args'.kind = "Arrows"
               /\ args'.pivot \notin PIVOT_OPTIONS)
             => (last'.outcome = OptionsErr /\ obj' = NoObj)
       /\ (last'.op = "set_pivot" /\ args'.pivot \notin PIVOT_OPTIONS)
             => (last'.outcome = OptionsErr /\ obj' = obj)
      ]_vars

\* C28 (as claimed): every Text or Text3D that exists has a coord_type in
\* Text.COORD_OPTIONS; a constructor call of either class passing another
\* coord_type raises the options error, and after a constructor call that
\* returned, get_coord_type returns the coord_type passed.
C28_CoordTypeInOptions ==
    [][/\ IsText(obj'.kind) => obj'.coord_type \in COORD_OPTIONS
       /\ (last'.op = "new" /\ IsText(args'.kind)
               /\ args'.coord_type \notin COORD_OPTIONS)
             => (last'.outcome = OptionsErr /\ obj' = NoObj)
       /\ (last'.op = "new" /\ IsText(args'.kind) /\ last'.outcome = OK)
             => Text_get_coord_type(obj') = Result(args'.coord_type, OK, <<>>)
      ]_vars

\* C29 (as claimed): every Line, Straight or Line3D that exists has a
\* linewidth of at least zero; a constructor call passing a negative
\* linewidth raises, and a set_linewidth passing one raises and leaves the
\* linewidth as it was.
C29_LinewidthNonNegative ==
    [][/\ IsLine(obj'.kind) => obj'.lw >= 0
       /\ (last'.op = "new" /\ IsLine(args'.kind) /\ args'.lw < 0)
             => (last'.outcome # OK /\ obj' = NoObj)
       /\ (last'.op = "set_linewidth" /\ args'.lw < 0)
             => (last'.outcome # OK /\ obj' = obj)
      ]_vars

\* C30: on a Points or Points3D of n points, set_color with a sequence of
\* numbers raises the size-mismatch AssertionError when its length is not n
\* and returns, storing it, when its length is n; set_color with a string
\* returns exactly when the string is in Artist.COLOR_OPTIONS and raises the
\* options error otherwise; a call that raises leaves the color as it was.
C30_PointsSetColor ==
    [][(last'.op = "set_color" /\ IsPoints(obj.kind))
       => LET c == args'.c IN
          /\ c.t = "seq" =>
               IF c.n = obj.n
               THEN last'.outcome = OK /\ obj' = [obj EXCEPT !.c = c]
               ELSE last'.outcome = ShapeMismatchErr /\ obj' = obj
          /\ c.t = "str" =>
               IF c.s \in COLOR_OPTIONS
               THEN last'.outcome = OK /\ obj' = [obj EXCEPT !.c = c]
               ELSE last'.outcome = OptionsErr /\ obj' = obj
      ]_vars

\* C30 witness: a Points of MaxLen points whose color is a name was given a
\* shorter sequence of numbers, which was refused.
C30_Witness ==
    /\ last.op = "set_color" /\ last.outcome = ShapeMismatchErr
    /\ obj.kind = "Points" /\ obj.n = MaxLen
    /\ args.c.t = "seq" /\ args.c.n < obj.n
    /\ obj.c = Str("red")

\* The validating setters of the Artist classes
ValidatingSetters == {"set_color", "set_linestyle", "set_size", "set_pivot",
                      "set_coord_type"}

\* The argument a passes the check of setter op on Artist o
PassesCheck(op, o, a) ==
    CASE op = "set_linestyle" -> a.ls \in LS_OPTIONS
      [] op = "set_pivot" -> a.pivot \in PIVOT_OPTIONS
      [] op = "set_coord_type" -> a.coord_type \in COORD_OPTIONS
      [] op = "set_size" -> a.s.t = "num" \/ (a.s.t = "seq" /\ a.s.n = o.n)
      [] op = "set_color" /\ IsPoints(o.kind) ->
             \/ a.c.t = "str" /\ a.c.s \in COLOR_OPTIONS
             \/ a.c.t = "seq" /\ a.c.n = o.n
             \/ a.c.t = "num" /\ o.n = 1
      [] op = "set_color" /\ o.kind = "Arrows" ->
             a.c.t = "num" \/ (a.c.t = "seq" /\ a.c.n = o.n)
      [] OTHER -> a.c.t = "str" /\ a.c.s \in COLOR_OPTIONS

\* C31: every call of a validating setter (set_color, set_linestyle, set_size,
\* set_pivot, set_coord_type of the Artist classes, Figure.set_autoscale)
\* checks its argument, whatever the attribute holds from earlier calls: it
\* returns exactly when the argument passes the check, and a call that raises
\* leaves the Artist (the Figure's autoscale) as it was before the call.
C31_SettersRevalidate ==
    [][/\ last'.op \in ValidatingSetters
            => /\ last'.outcome = OK <=> PassesCheck(last'.op, obj, args')
               /\ last'.outcome # OK => obj' = obj
       /\ last'.op = "set_autoscale"
            => /\ last'.outcome = OK <=> last'.name \in AUTOSCALE_OPTIONS
               /\ last'.outcome = OK => autoscale' = last'.name
               /\ last'.outcome # OK => autoscale' = autoscale
      ]_vars

\* C31 witness: a Line whose linestyle an earlier set_linestyle had changed
\* from the default was given a string outside Line.LS_OPTIONS, which was
\* refused, on a Figure whose autoscale an earlier call had set.
C31_Witness ==
    /\ last.op = "set_linestyle" /\ last.outcome = OptionsErr
    /\ args.ls = "dashes"
    /\ obj.kind = "Line" /\ obj.ls = "dotted"
    /\ autoscale = "width"

\* C32 (as claimed): in every reachable state a Legend.add with a list of
\* names that are all registered for non-Text artists returns, the recompute
\* of the panel included, also after a remove_artist of another name that was
\* in Legend._artists; and a Legend.add or Legend.remove that raises leaves
\* Legend._artists as it was.
C32_ListAddSucceeds ==
    [][/\ (last'.op = "legend_add" /\ last'.sel.kind = "list"
               /\ InvalidIn(last'.sel, artists) = {})
             => last'.outcome = OK
       /\ (last'.op \in {"legend_add", "legend_remove"} /\ last'.outcome # OK)
             => legend_artists' = legend_artists
      ]_vars

\* C33 (as claimed): a Legend.remove with a list of names that are all
\* registered for non-Text artists returns, and afterwards no listed name is
\* in Legend._artists, also when a listed name was not in Legend._artists
\* before the call or stands twice in the list; the entries of the names not
\* listed are kept, in their order.
C33_ListRemoveSucceeds ==
    [][(last'.op = "legend_remove" /\ last'.sel.kind = "list"
            /\ InvalidIn(last'.sel, artists) = {})
       => /\ last'.outcome = OK
          /\ DictKeys(legend_artists') \cap Listed(last'.sel) = {}
          /\ legend_artists' =
                 SelectSeq(legend_artists,
                           LAMBDA e : e[1] \notin Listed(last'.sel))
      ]_vars

\* C34 (as claimed): whatever add_artist, remove_artist and set_name calls
\* were made, every key of Figure._artists is the current name of the Artist
\* stored under it, and no Artist is stored under two keys.
C34_KeysAreCurrentNames ==
    /\ \A i \in DOMAIN artists : artists[i][1] = artName[artists[i][2]]
    /\ \A i, j \in DOMAIN artists : artists[i][2] = artists[j][2] => i = j

\* The eight linestyle tokens of matplotlib
LinestyleTokens == {"solid", "dashed", "dotted", "dashdot",
                    "-", "--", ":", "-."}

\* C35 (as claimed): set_linestyle, and the construction of a Line, Straight
\* or Line3D whose other arguments are the defaults, returns when the
\* linestyle passed is one of the eight tokens and raises the options error
\* for every other string.
C35_EightLinestyles ==
    [][(\/ last'.op = "set_linestyle"
        \/ /\ last'.op = "new" /\ IsLine(args'.kind)
           /\ [args' EXCEPT !.ls = "solid"] = Defaults(args'.kind))
       => IF args'.ls \in LinestyleTokens
          THEN last'.outcome = OK /\ obj'.ls = args'.ls
          ELSE last'.outcome = OptionsErr
      ]_vars
====
